---- MODULE Spec2Model ----
(***************************************************************************)
(* Model of the flood control dashboard: the proximity-gated reaction      *)
(* (rating) routes of src/server/routes.ts over the tables of              *)
(* src/shared/schema.ts, the project store, the settings route and the     *)
(* browser side of a rating.                                               *)
(*                                                                         *)
(* Coordinates are integers in units of 1e-4 degree ("NaN" for a value     *)
(* that parseFloat turns into NaN).  Distances are integers in units of    *)
(* 1e-5 metre.  Spec runs the rating route one request at a time over all  *)
(* inputs, SpecRoutes the three routes one request at a time, each route   *)
(* as one action.                                                          *)
(* SpecConc runs two rating requests at once: every `await` between the    *)
(* reaction lookup and the reaction write is an interleaving point, so the *)
(* route is three actions (begin, lookup, write) per request slot.         *)
(* SpecStorage runs the project and analytics routes over the in-memory    *)
(* project store (MemStorage), SpecRollup the two by-reactions rollups     *)
(* over every reactions table of two users and three projects, and         *)
(* SpecDistance the two distance functions over pairs of points.  Text is  *)
(* a sequence of characters, a quotient an exact fraction [num, den].      *)
(* SpecCatalog runs the project routes that create, update and delete      *)
(* over an empty store and an empty projects table, SpecLeaderboard the    *)
(* rating route and the user leaderboard, SpecSettings the settings route  *)
(* of two users at once (the select and the update are two actions),       *)
(* SpecCache one browser's rating submissions and cached reads, and        *)
(* SpecClick the rating click with its geolocation request; SpecClickFair  *)
(* adds weak fairness of the browser's callbacks.                          *)
(***************************************************************************)
EXTENDS Integers, Sequences, FiniteSets, TLC

(* ---------------------------- bounds ----------------------------------- *)
MaxSubmits == 2      \* rating requests started in one behaviour
MaxLocRows == 2      \* rows the user_locations table may hold
MaxProjects == 2     \* projects created in one behaviour
MaxClicks == 2       \* rating clicks made in one behaviour

(* ------------------------- program constants --------------------------- *)
RequiredMeters == 500
MetersE5PerTenth == 111195   \* 6371000 * PI / 180 * 1e-5 m, in 1e-5 m
WithinE5 == 50000000         \* distance <= 0.5 km, in 1e-5 m
VerifyDegreesUnits == 50     \* distance < 0.005 degrees, in 1e-4 degree

AdminEmail == "janmvtrinidad@gmail.com"

(* --------------------------- value domains ----------------------------- *)
Slots == {1, 2}
UserIds == {"u1", "admin"}
ProjectIds == {"P1", "P2", "P3"}      \* P3 never exists in the projects table
ValidRatings == {"excellent", "standard", "sub-standard", "ghost"}
RatingInputs == {"excellent", "ghost", "bogus"}
Absent == "undefined"                 \* a JSON body field that is not sent
Null == "null"                        \* SQL NULL
CommentInputs == {Absent, "c1"}
\* req.body.userLocation: present = FALSE is a body without the field
NoLocation == [present |-> FALSE, latitude |-> 0, longitude |-> 0]
Near == [present |-> TRUE, latitude |-> 146035, longitude |-> 1209842]
Far == [present |-> TRUE, latitude |-> 147000, longitude |-> 1210500]
JustOver == [present |-> TRUE, latitude |-> 146040, longitude |-> 1209842]
ZeroLat == [present |-> TRUE, latitude |-> 0, longitude |-> 1209842]
Locations == {Near, JustOver, Far, ZeroLat}
LocationInputs == Locations \cup {NoLocation}
\* the inputs of the specification of the three routes
RoutesProjectIds == {"P1", "P3"}
RoutesRatingInputs == {"excellent", "ghost"}
RoutesCommentInputs == {Absent}
RoutesLocationInputs == {NoLocation, Near, Far}
\* the inputs of the concurrent specification
ConcProjectIds == {"P1", "P2"}
ConcRatingInputs == {"excellent", "ghost"}
ConcLocationInputs == {NoLocation, Near}
UserLocationInputs == {Near, Far}
\* a reaction id (a generated uuid): the pair it was inserted for and the
\* number of rows the pair had then; NoRow is an id no row has
ReactionId(u, p, k) == <<u, p, k>>
NoRow == << >>
\* a JavaScript number: an integer value or NaN
Num(x) == [nan |-> FALSE, v |-> x]
NaN == [nan |-> TRUE, v |-> 0]
NoDetails == [set |-> FALSE, distance |-> Num(0)]

Email(u) == IF u = "admin" THEN AdminEmail ELSE "user@example.com"

(* users, userLocations, reactions, projects: src/shared/schema.ts *)
VARIABLES projects, isLocationVerified, userLocations, reactions, req, last,
          resp, nsubmit, storage, input, output, users, settings, click,
          cache

vars == <<projects, isLocationVerified, userLocations, reactions, req, last,
          resp, nsubmit, storage, input, output, users, settings, click,
          cache>>

\* the names of the users table, the settings requests in flight, and the
\* browser side: the rating clicks and the query cache
web == <<users, settings, click, cache>>

\* the in-memory project store, and the input and the payload of the last
\* request to a project, analytics or rollup route
memory == <<storage, input, output>>

stores == <<projects, isLocationVerified, userLocations, reactions>>

(* ------------------------- pure helpers -------------------------------- *)
Abs(x) == IF x < 0 THEN -x ELSE x

RECURSIVE ISqrtBetween(_, _, _)
ISqrtBetween(n, lo, hi) ==
    IF lo >= hi THEN lo
    ELSE LET mid == (lo + hi + 1) \div 2
         IN IF mid * mid <= n THEN ISqrtBetween(n, mid, hi)
            ELSE ISqrtBetween(n, lo, mid - 1)

\* Math.sqrt on integers: the largest k with k*k <= n
ISqrt(n) == ISqrtBetween(n, 0, 46340)

CosTable ==
  << 1000, 1000, 999, 999, 998, 996, 995, 993, 990, 988, 985, 982, 978, 974,
     970, 966, 961, 956, 951, 946, 940, 934, 927, 921, 914, 906, 899, 891,
     883, 875, 866, 857, 848, 839, 829, 819, 809, 799, 788, 777, 766, 755,
     743, 731, 719, 707, 695, 682, 669, 656, 643, 629, 616, 602, 588, 574,
     559, 545, 530, 515, 500, 485, 469, 454, 438, 423, 407, 391, 375, 358,
     342, 326, 309, 292, 276, 259, 242, 225, 208, 191, 174, 156, 139, 122,
     105, 87, 70, 52, 35, 17, 0 >>

\* Math.cos(lat * PI / 180) * 1000, lat in 1e-4 degree, |lat| < 90 degrees
CosMilli(lat) ==
    LET d == Abs(lat) \div 10000
        f == Abs(lat) % 10000
    IN (CosTable[d + 1] * (10000 - f) + CosTable[d + 2] * f) \div 10000

\* JavaScript truthiness of a numeric body field: 0 is falsy
Truthy(x) == x # 0

\* userLocation?.latitude && userLocation?.longitude
HasLocation(loc) == loc.present /\ Truthy(loc.latitude) /\ Truthy(loc.longitude)

\* parseFloat of a stored decimal column: the text 'NaN' gives NaN
ParseFloat(d) == IF d.nan THEN NaN ELSE Num(d.v)

\* the distance with the cosine of the project's latitude taken twice
HaversineE5ProjectCosine(projectLat, projectLng, userLat, userLng) ==
    IF projectLat.nan \/ projectLng.nan THEN NaN
    ELSE LET dLat == userLat - projectLat.v
             dLon == userLng - projectLng.v
             cc == (CosMilli(projectLat.v) * CosMilli(projectLat.v)) \div 1000
             a == dLat * dLat + (cc * (dLon * dLon)) \div 1000
         IN Num(ISqrt(100 * a) * MetersE5PerTenth)

\* Haversine distance of the rating route, in 1e-5 m (NaN propagates).
\* For the small angles of the model sin(x/2)^2 = x^2/4 and
\* 2*atan2(sqrt(a), sqrt(1-a)) = 2*sqrt(a).
HaversineE5(projectLat, projectLng, userLat, userLng) ==
    IF projectLat.nan \/ projectLng.nan THEN NaN
    ELSE LET dLat == userLat - projectLat.v
             dLon == userLng - projectLng.v
             cc == (CosMilli(projectLat.v) * CosMilli(userLat)) \div 1000
             a == dLat * dLat + (cc * (dLon * dLon)) \div 1000
         IN Num(ISqrt(100 * a) * MetersE5PerTenth)

\* Math.round(proximityDetails.distance), in metres
RoundMeters(dE5) == IF dE5.nan THEN NaN ELSE Num((dE5.v + 50000) \div 100000)

\* the comparison made on the rounded distance
WithinRadiusRounded(dE5) ==
    IF dE5.nan THEN FALSE ELSE RoundMeters(dE5).v <= RequiredMeters

\* distance <= 0.5 (km); a comparison with NaN is false
WithinRadius(dE5) == IF dE5.nan THEN FALSE ELSE dE5.v <= WithinE5

\* Euclidean degree distance of verify-proximity: distance < 0.005
EuclidWithin(projectLat, projectLng, userLat, userLng) ==
    IF projectLat.nan \/ projectLng.nan \/ userLat.nan \/ userLng.nan THEN FALSE
    ELSE LET dLat == Abs(projectLat.v - userLat.v)
             dLng == Abs(projectLng.v - userLng.v)
         IN /\ dLat < VerifyDegreesUnits
            /\ dLng < VerifyDegreesUnits
            /\ dLat * dLat + dLng * dLng < VerifyDegreesUnits * VerifyDegreesUnits

(* ------------------------------ state ---------------------------------- *)
\* the last response sent: the route and the user it answers, the status,
\* the error text, and the fields of the body the properties read
NoResp ==
    [route |-> "none", userId |-> "none", status |-> 0, error |-> "none",
     distance |-> Num(0), required |-> 0, tooFar |-> FALSE,
     proximityVerified |-> FALSE, locationCaptured |-> FALSE]

Resp(route, u, status, error) ==
    [NoResp EXCEPT !.route = route, !.userId = u, !.status = status,
                   !.error = error]

\* no request to a project, analytics or rollup route was made yet
NoInput == [kind |-> "none"]

NoOutput == [kind |-> "none"]

IdleReq ==
    [pc |-> "idle", userId |-> "u1", projectId |-> "P1", rating |-> "excellent",
     comment |-> Absent, userLocation |-> NoLocation, isAdminUser |-> FALSE,
     isProximityVerified |-> FALSE, proximityDetails |-> NoDetails,
     existingReaction |-> NoRow]

\* the projects table: P1 has numeric coordinates, P2 a NaN latitude
\* a column or a body field that holds a text or null
NullText == [null |-> TRUE, text |-> << >>]
Text(t) == [null |-> FALSE, text |-> t]

\* a field of a request body: not sent, null, or a text
AbsentField == [kind |-> "undefined", text |-> << >>]
NullField == [kind |-> "null", text |-> << >>]
TextField(t) == [kind |-> "text", text |-> t]

IdleSettings == [pc |-> "idle", name |-> AbsentField, username |-> AbsentField]

\* users are created at login with the name of the provider and no username
InitUsers == [u \in UserIds |-> [name |-> Text(<<"n">>), username |-> NullText]]

\* the query keys of the reads that depend on reactions
ReactionsUrl(p) ==
    IF p = "P1" THEN "/api/projects/P1/reactions"
    ELSE IF p = "P2" THEN "/api/projects/P2/reactions"
    ELSE "/api/projects/P3/reactions"

ReactionsKey(p) == <<ReactionsUrl(p)>>
ByReactionsKey(sortBy, params) == <<"projects-by-reactions", sortBy, params>>

QueryKeys ==
    {ReactionsKey("P1"), ReactionsKey("P2"),
     ByReactionsKey("undefined", "useFullCostForJointVentures=false")}

\* a query without data
NoEntry == [present |-> FALSE, stale |-> TRUE, filledAt |-> 0]

NoAnswer == [key |-> << >>, from |-> "none", filledAt |-> 0, lastWrite |-> 0]

\* the query client of the browser of user u: its entries, the number of
\* rating requests whose callbacks have run, per key the last successful one
\* of them that changed what the key reads, and the answer of the last read
EmptyCache(u) ==
    [user |-> u, entries |-> [k \in QueryKeys |-> NoEntry], settled |-> 0,
     lastWrite |-> [k \in QueryKeys |-> 0], answer |-> NoAnswer]

InitWeb ==
    /\ users = InitUsers
    /\ settings = [u \in UserIds |-> IdleSettings]
    /\ click = << >>
    /\ cache = EmptyCache("none")

InitProjects ==
    [p \in {"P1", "P2"} |->
        IF p = "P1" THEN [latitude |-> Num(145995), longitude |-> Num(1209842)]
        ELSE [latitude |-> NaN, longitude |-> Num(1209842)]]

Init ==
    /\ projects = InitProjects
    /\ isLocationVerified = [u \in UserIds |-> FALSE]
    /\ userLocations = << >>
    /\ reactions = {}
    /\ req = [s \in Slots |-> IdleReq]
    /\ last = IdleReq
    /\ resp = NoResp
    /\ nsubmit = 0
    /\ storage = << >>
    /\ input = NoInput
    /\ output = NoOutput
    /\ InitWeb

\* rows of the reactions table for one (user, project) pair
RowsOf(u, p) == {r \in reactions : r.userId = u /\ r.projectId = p}

\* schema.ts declares no unique index on user_locations.user_id
UserLocationsUserIdUnique == FALSE

(* ---------------- POST /api/projects/:projectId/reactions --------------- *)

\* the location upsert of the rating route: ON CONFLICT (user_id) needs a
\* unique index on user_id; without one the statement raises, the catch block
\* logs it, and neither the row nor the user's flag is written
LocationUpsertWrites(loc) == HasLocation(loc) /\ UserLocationsUserIdUnique

UpsertedLocations(u, loc) ==
    IF \E i \in 1..Len(userLocations) : userLocations[i].userId = u
    THEN [i \in 1..Len(userLocations) |->
            IF userLocations[i].userId = u
            THEN [userLocations[i] EXCEPT !.latitude = Num(loc.latitude),
                                          !.longitude = Num(loc.longitude)]
            ELSE userLocations[i]]
    ELSE Append(userLocations,
                [userId |-> u, latitude |-> Num(loc.latitude),
                 longitude |-> Num(loc.longitude)])

\* the user_locations table and the user's flag after the location step
LocationsAfterSubmit(u, loc) ==
    IF LocationUpsertWrites(loc) THEN UpsertedLocations(u, loc)
    ELSE userLocations

FlagsAfterSubmit(u, loc) ==
    IF LocationUpsertWrites(loc)
    THEN [isLocationVerified EXCEPT ![u] = TRUE]
    ELSE isLocationVerified

IsAdminUser(u) == Email(u) = AdminEmail

\* proximityDetails: set only when a truthy location came with the request
\* and the project row was found
ProximityDetails(loc, p) ==
    IF HasLocation(loc) /\ p \in DOMAIN projects
    THEN [set |-> TRUE,
          distance |-> HaversineE5(ParseFloat(projects[p].latitude),
                                   ParseFloat(projects[p].longitude),
                                   loc.latitude, loc.longitude)]
    ELSE NoDetails

\* the calculation without the admin bypass on the distance branch
IsProximityVerifiedNoBypass(isAdmin, loc, details) ==
    IF HasLocation(loc)
    THEN details.set /\ WithinRadius(details.distance)
    ELSE isAdmin

IsProximityVerified(isAdmin, loc, details) ==
    IF HasLocation(loc)
    THEN details.set /\ (isAdmin \/ WithinRadius(details.distance))
    ELSE isAdmin

\* the check after the write: userLocation && proximityDetails &&
\* !isProximityVerified && !isAdminUser
ProximityRejected(loc, details, verified, isAdmin) ==
    loc.present /\ details.set /\ ~verified /\ ~isAdmin

\* the locals of a request once the proximity calculation is done
NewRequest(u, p, rating, comment, loc) ==
    LET details == ProximityDetails(loc, p)
    IN [pc |-> "lookup", userId |-> u, projectId |-> p, rating |-> rating,
        comment |-> comment, userLocation |-> loc,
        isAdminUser |-> IsAdminUser(u),
        isProximityVerified |->
            IsProximityVerified(IsAdminUser(u), loc, details),
        proximityDetails |-> details,
        existingReaction |-> NoRow]

\* the lookup by project alone
ExistingReactionOnProject(u, p) ==
    IF {r \in reactions : r.projectId = p} = {} THEN {NoRow}
    ELSE {r.id : r \in {x \in reactions : x.projectId = p}}

\* select ... where userId and projectId ... limit 1: the ids it may return
ExistingReaction(u, p) ==
    IF RowsOf(u, p) = {} THEN {NoRow} ELSE {r.id : r \in RowsOf(u, p)}

\* reactions.project_id references projects.id
ForeignKeyViolation(p) == p \notin DOMAIN projects

\* a reactions table without the unique constraint
UniqueViolationOff(u, p) == FALSE

\* userProjectUnique: unique().on(userId, projectId)
UniqueViolation(u, p) == RowsOf(u, p) # {}

\* the insert raises and the catch block answers 500
InsertThrows(r) ==
    ForeignKeyViolation(r.projectId) \/ UniqueViolation(r.userId, r.projectId)

\* update ... set {rating, comment, isProximityVerified}: the query builder
\* leaves out a key whose value is undefined, so a request without a comment
\* keeps the stored comment
UpdatedRow(row, rating, comment, verified) ==
    [row EXCEPT !.rating = rating,
                !.comment = IF comment = Absent THEN row.comment ELSE comment,
                !.isProximityVerified = verified]

\* insert ... values {...}: a comment that is undefined is stored as NULL
InsertedRow(u, p, rating, comment, verified) ==
    [id |-> ReactionId(u, p, Cardinality(RowsOf(u, p)) + 1), userId |-> u,
     projectId |-> p, rating |-> rating,
     comment |-> IF comment = Absent THEN Null ELSE comment,
     isProximityVerified |-> verified]

\* the reactions table after the update or insert of request r
ReactionsAfterWrite(r) ==
    IF r.existingReaction # NoRow
    THEN {IF x.id = r.existingReaction
          THEN UpdatedRow(x, r.rating, r.comment, r.isProximityVerified)
          ELSE x : x \in reactions}
    ELSE IF InsertThrows(r) THEN reactions
    ELSE reactions \cup {InsertedRow(r.userId, r.projectId, r.rating,
                                     r.comment, r.isProximityVerified)}

\* the response of request r
SubmitResponse(r) ==
    IF r.existingReaction = NoRow /\ InsertThrows(r)
    THEN Resp("reactions", r.userId, 500, "Failed to save reaction")
    ELSE IF ProximityRejected(r.userLocation, r.proximityDetails,
                              r.isProximityVerified, r.isAdminUser)
    THEN [Resp("reactions", r.userId, 400, "Proximity verification failed") EXCEPT
             !.distance = RoundMeters(r.proximityDetails.distance),
             !.required = RequiredMeters, !.tooFar = TRUE]
    ELSE [Resp("reactions", r.userId, 200, "none") EXCEPT
             !.proximityVerified = r.isProximityVerified,
             !.locationCaptured = r.userLocation.present]

\* the whole handler, run without another request in between
SubmitRating(u, p, rating, comment, loc) ==
    /\ nsubmit < MaxSubmits
    /\ nsubmit' = nsubmit + 1
    /\ userLocations' = LocationsAfterSubmit(u, loc)
    /\ isLocationVerified' = FlagsAfterSubmit(u, loc)
    /\ LET begun == NewRequest(u, p, rating, comment, loc)
       IN \E found \in ExistingReaction(u, p) :
            LET r == [begun EXCEPT !.existingReaction = found]
            IN /\ reactions' = ReactionsAfterWrite(r)
               /\ resp' = SubmitResponse(r)
               /\ last' = [r EXCEPT !.pc = "done"]
    /\ UNCHANGED web
    /\ UNCHANGED <<projects, req, memory>>

\* the handler up to the proximity calculation
SubmitBegin(s, u, p, rating, comment, loc) ==
    /\ req[s].pc = "idle"
    /\ \A t \in Slots : t < s => req[t].pc # "idle"
    /\ nsubmit < MaxSubmits
    /\ nsubmit' = nsubmit + 1
    /\ userLocations' = LocationsAfterSubmit(u, loc)
    /\ isLocationVerified' = FlagsAfterSubmit(u, loc)
    /\ req' = [req EXCEPT ![s] = NewRequest(u, p, rating, comment, loc)]
    /\ UNCHANGED web
    /\ UNCHANGED <<projects, reactions, resp, last, memory>>

\* the existingReaction select
SubmitLookup(s) ==
    /\ req[s].pc = "lookup"
    /\ \E found \in ExistingReaction(req[s].userId, req[s].projectId) :
          req' = [req EXCEPT ![s].pc = "write", ![s].existingReaction = found]
    /\ UNCHANGED web
    /\ UNCHANGED <<projects, isLocationVerified, userLocations, reactions,
                   resp, last, nsubmit, memory>>

\* the update or insert, the proximity check and the response
SubmitWrite(s) ==
    /\ req[s].pc = "write"
    /\ reactions' = ReactionsAfterWrite(req[s])
    /\ resp' = SubmitResponse(req[s])
    /\ last' = [req[s] EXCEPT !.pc = "done"]
    /\ req' = [req EXCEPT ![s] = IdleReq]
    /\ UNCHANGED web
    /\ UNCHANGED <<projects, isLocationVerified, userLocations, nsubmit,
                   memory>>

(* ------------------------ POST /api/user/location ----------------------- *)
UpdateUserLocation(u, loc) ==
    /\ Len(userLocations) < MaxLocRows
    /\ userLocations' = Append(userLocations,
                               [userId |-> u, latitude |-> Num(loc.latitude),
                                longitude |-> Num(loc.longitude)])
    /\ isLocationVerified' = [isLocationVerified EXCEPT ![u] = TRUE]
    /\ resp' = Resp("location", u, 200, "none")
    /\ UNCHANGED web
    /\ UNCHANGED <<projects, reactions, req, last, nsubmit, memory>>

(* -------------- POST /api/reactions/:reactionId/verify-proximity -------- *)
\* orderBy(userLocations.created_at).limit(1): ascending, the first row
FirstLocationOf(u) ==
    LET idx == {i \in 1..Len(userLocations) : userLocations[i].userId = u}
    IN IF idx = {} THEN 0 ELSE CHOOSE i \in idx : \A j \in idx : i <= j

\* the flag verify-proximity computes for a row and a stored location
VerifiedByStoredLocation(row, ul) ==
    EuclidWithin(ParseFloat(projects[row.projectId].latitude),
                 ParseFloat(projects[row.projectId].longitude),
                 ParseFloat(ul.latitude), ParseFloat(ul.longitude))

\* the lookup by reaction id alone
ReactionDataAnyOwner(u, rid) == {r \in reactions : r.id = rid}

\* where(and(eq(reactions.id, reactionId), eq(reactions.userId, userId)))
ReactionData(u, rid) == {r \in reactions : r.id = rid /\ r.userId = u}

VerifyProximity(u, rid) ==
    /\ input' = [kind |-> "verify", reactionId |-> rid]
    /\ LET reactionData == ReactionData(u, rid)
       IN IF reactionData = {}
          THEN /\ resp' = Resp("verify", u, 404, "Reaction not found")
               /\ UNCHANGED reactions
          ELSE LET row == CHOOSE r \in reactionData : TRUE
               IN IF row.projectId \notin DOMAIN projects
                  THEN /\ resp' = Resp("verify", u, 404, "Project not found")
                       /\ UNCHANGED reactions
                  ELSE IF FirstLocationOf(u) = 0
                  THEN /\ resp' = Resp("verify", u, 400, "User location not available")
                       /\ UNCHANGED reactions
                  ELSE LET verified ==
                             VerifiedByStoredLocation(
                                 row, userLocations[FirstLocationOf(u)])
                       IN /\ reactions' =
                               {IF x.id = rid
                                THEN [x EXCEPT !.isProximityVerified = verified]
                                ELSE x : x \in reactions}
                          /\ resp' = [Resp("verify", u, 200, "none") EXCEPT
                                         !.proximityVerified = verified]
    /\ UNCHANGED web
    /\ UNCHANGED <<projects, isLocationVerified, userLocations, req, last,
                   nsubmit, storage, output>>

\* the reaction ids a client may name: the first id of every pair
ReactionIdInputs ==
    {ReactionId(u, p, 1) : u \in UserIds, p \in RoutesProjectIds}

\* the rating route, one request at a time, every input
Next ==
    \E u \in UserIds, p \in ProjectIds, rating \in RatingInputs,
       comment \in CommentInputs, loc \in LocationInputs :
         SubmitRating(u, p, rating, comment, loc)

\* the three routes, one request at a time
NextRoutes ==
    \/ \E u \in UserIds, p \in RoutesProjectIds,
          rating \in RoutesRatingInputs, comment \in RoutesCommentInputs,
          loc \in RoutesLocationInputs :
            SubmitRating(u, p, rating, comment, loc)
    \/ \E u \in UserIds, loc \in UserLocationInputs : UpdateUserLocation(u, loc)
    \/ \E u \in UserIds, rid \in ReactionIdInputs : VerifyProximity(u, rid)

\* two rating requests in flight at once
NextConc ==
    \/ \E s \in Slots, u \in UserIds, p \in ConcProjectIds,
          rating \in ConcRatingInputs, comment \in CommentInputs,
          loc \in ConcLocationInputs :
            SubmitBegin(s, u, p, rating, comment, loc)
    \/ \E s \in Slots : SubmitLookup(s)
    \/ \E s \in Slots : SubmitWrite(s)

Spec == Init /\ [][Next]_vars

SpecRoutes == Init /\ [][NextRoutes]_vars

SpecConc == Init /\ [][NextConc]_vars

(* ============ the in-memory project store and its analytics ============= *)

(* ------------------------------ strings -------------------------------- *)
\* a string is the sequence of its characters; "" is << >>
UpperCase == {"A", "B", "N"}

LowerOf(c) == IF c = "A" THEN "a" ELSE IF c = "B" THEN "b" ELSE "n"

\* String.prototype.toLowerCase
ToLowerCase(s) ==
    [i \in 1..Len(s) |-> IF s[i] \in UpperCase THEN LowerOf(s[i]) ELSE s[i]]

\* String.prototype.includes
Includes(s, t) ==
    \E i \in 0..(Len(s) - Len(t)) : SubSeq(s, i + 1, i + Len(t)) = t

\* s.split('/'): the fragments between the slashes, empty ones included
RECURSIVE Split(_)
Split(s) ==
    IF \A i \in 1..Len(s) : s[i] # "/" THEN <<s>>
    ELSE LET i == CHOOSE k \in 1..Len(s) :
                     s[k] = "/" /\ \A j \in 1..(k - 1) : s[j] # "/"
         IN <<SubSeq(s, 1, i - 1)>> \o Split(SubSeq(s, i + 1, Len(s)))

\* String.prototype.trim
RECURSIVE Trim(_)
Trim(s) ==
    IF s # << >> /\ s[1] = " " THEN Trim(Tail(s))
    ELSE IF s # << >> /\ s[Len(s)] = " " THEN Trim(SubSeq(s, 1, Len(s) - 1))
    ELSE s

(* ----------------------------- numbers --------------------------------- *)
RECURSIVE GCD(_, _)
GCD(a, b) == IF b = 0 THEN a ELSE GCD(b, a % b)

\* the quotient n / d of two integers (n >= 0, d > 0), in lowest terms
Frac(n, d) == LET g == GCD(n, d) IN [num |-> n \div g, den |-> d \div g]

FracAdd(a, b) == Frac(a.num * b.den + b.num * a.den, a.den * b.den)

(* --------------------------- request inputs ---------------------------- *)
\* the fields insertProjectSchema requires: the notNull columns of projects
\* that have no default
RequiredFields ==
    {"projectname", "location", "latitude", "longitude", "contractor", "cost",
     "fy", "region"}

\* a request body for a project: missing holds the names of the fields the
\* body does not carry
ProjectBody(name, location, contractor, cost, fy, region, missing) ==
    [projectname |-> name, location |-> location,
     latitude |-> Num(145995), longitude |-> Num(1209842),
     contractor |-> contractor, cost |-> Num(cost), fy |-> fy,
     region |-> region, other_details |-> << >>, status |-> << >>,
     missing |-> missing]

Solo == ProjectBody(<<"x">>, <<"m">>, <<"A">>, 100, <<"1">>, <<"N">>, {})
JointVenture ==
    ProjectBody(<<"y">>, <<"M">>, <<"A", " ", "/", " ", "B">>, 100, <<"2">>,
                <<"N">>, {})
TrailingSlash ==
    ProjectBody(<<"y">>, <<"b">>, <<"A", "/">>, 250, <<"1">>, <<"R">>, {})
Repeated ==
    ProjectBody(<<"x">>, <<"n">>, <<"B", "/", "B">>, 60, <<"2">>, <<"R">>, {})
NoContractor ==
    ProjectBody(<<"z">>, <<"m">>, << >>, 100, <<"1">>, <<"N">>, {"contractor"})

ValidBodies == {Solo, JointVenture, TrailingSlash, Repeated}
BodyInputs == ValidBodies \cup {NoContractor}
BulkInputs ==
    {<<Solo, JointVenture>>, <<Solo, NoContractor>>, <<NoContractor, Solo>>,
     <<TrailingSlash, Repeated>>, << >>}

\* req.query of the analytics and project lists: a string filter that is
\* not sent is << >>, a cost bound that is not sent has set = FALSE, and the
\* joint-venture flag is the text sent or Absent
NoFilters ==
    [search |-> << >>, minCost |-> [set |-> FALSE, v |-> 0],
     maxCost |-> [set |-> FALSE, v |-> 0], region |-> << >>,
     contractor |-> << >>, fiscalYear |-> << >>, location |-> << >>,
     status |-> << >>, useFullCostForJointVentures |-> Absent]

Bound(x) == [set |-> TRUE, v |-> x]

FilterInputs ==
    {NoFilters,
     [NoFilters EXCEPT !.useFullCostForJointVentures = "true"],
     [NoFilters EXCEPT !.useFullCostForJointVentures = "false"],
     [NoFilters EXCEPT !.search = <<"n">>],
     [NoFilters EXCEPT !.search = <<"M">>],
     [NoFilters EXCEPT !.search = <<"q">>],
     [NoFilters EXCEPT !.minCost = Bound(100)],
     [NoFilters EXCEPT !.maxCost = Bound(100)],
     [NoFilters EXCEPT !.maxCost = Bound(0)],
     [NoFilters EXCEPT !.region = <<"N">>],
     [NoFilters EXCEPT !.region = <<"n">>],
     [NoFilters EXCEPT !.contractor = <<"A">>],
     [NoFilters EXCEPT !.contractor = <<"b">>],
     [NoFilters EXCEPT !.fiscalYear = <<"1">>],
     [NoFilters EXCEPT !.location = <<"m">>],
     [NoFilters EXCEPT !.status = <<"a", "c", "t", "i", "v", "e">>],
     [NoFilters EXCEPT !.status = <<"d", "o", "n", "e">>],
     [NoFilters EXCEPT !.region = <<"R">>, !.minCost = Bound(100),
                      !.useFullCostForJointVentures = "true"]}

\* randomUUID(): the id of the k-th project created
NewIds == <<"N1", "N2", "N3", "N4", "N5", "N6">>

(* ------------------------------ MemStorage ----------------------------- *)
\* insertProjectSchema.parse: every required field is there
ValidProject(body) == body.missing \cap RequiredFields = {}

\* z.array(insertProjectSchema).parse, checking the first element only
ValidProjectsFirstOnly(bodies) == bodies = << >> \/ ValidProject(bodies[1])

\* z.array(insertProjectSchema).parse: every element is valid
ValidProjects(bodies) == \A i \in 1..Len(bodies) : ValidProject(bodies[i])

\* the Project that createProject builds from a body
NewProject(body, id) ==
    [id |-> id, projectname |-> body.projectname, location |-> body.location,
     latitude |-> body.latitude, longitude |-> body.longitude,
     contractor |-> body.contractor, cost |-> body.cost, fy |-> body.fy,
     region |-> body.region, other_details |-> body.other_details,
     status |-> IF body.status = << >> THEN <<"a", "c", "t", "i", "v", "e">>
                ELSE body.status]

\* the Map after createProjects: one new entry per body, in order; k ids were
\* generated before
RECURSIVE StoredAfter(_, _, _)
StoredAfter(map, bodies, k) ==
    IF bodies = << >> THEN map
    ELSE StoredAfter(Append(map, NewProject(Head(bodies), NewIds[k + 1])),
                     Tail(bodies), k + 1)

\* db.insert(projects).values(...): the rows the projects table gains
RECURSIVE TableAfter(_, _)
TableAfter(table, created) ==
    IF created = << >> THEN table
    ELSE TableAfter((Head(created).id :>
                        [latitude |-> Head(created).latitude,
                         longitude |-> Head(created).longitude]) @@ table,
                    Tail(created))

\* the filter of getProjects
GetProjectsKeeps(p, f) ==
    /\ f.search # << >> =>
          LET searchLower == ToLowerCase(f.search)
          IN \/ Includes(ToLowerCase(p.projectname), searchLower)
             \/ Includes(ToLowerCase(p.location), searchLower)
             \/ Includes(ToLowerCase(p.contractor), searchLower)
             \/ Includes(ToLowerCase(p.region), searchLower)
             \/ (p.other_details # << >>
                 /\ Includes(ToLowerCase(p.other_details), searchLower))
    /\ f.minCost.set => ParseFloat(p.cost).v >= f.minCost.v
    /\ f.maxCost.set => ParseFloat(p.cost).v <= f.maxCost.v
    /\ f.region # << >> => p.region = f.region
    /\ f.contractor # << >> => p.contractor = f.contractor
    /\ f.fiscalYear # << >> => p.fy = f.fiscalYear
    /\ f.location # << >> =>
          Includes(ToLowerCase(p.location), ToLowerCase(f.location))
    /\ f.status # << >> => p.status = f.status

\* the filter of getAnalytics
GetAnalyticsKeeps(p, f) ==
    /\ f.search # << >> =>
          LET search == ToLowerCase(f.search)
          IN \/ Includes(ToLowerCase(p.projectname), search)
             \/ Includes(ToLowerCase(p.location), search)
             \/ Includes(ToLowerCase(p.contractor), search)
    /\ f.minCost.set => ~(ParseFloat(p.cost).v < f.minCost.v)
    /\ f.maxCost.set => ~(ParseFloat(p.cost).v > f.maxCost.v)
    /\ f.region # << >> => p.region = f.region
    /\ f.contractor # << >> =>
          Includes(ToLowerCase(p.contractor), ToLowerCase(f.contractor))
    /\ f.fiscalYear # << >> => p.fy = f.fiscalYear
    /\ f.location # << >> =>
          Includes(ToLowerCase(p.location), ToLowerCase(f.location))
    /\ f.status # << >> => p.status = f.status

\* the projects of the Map that the filter of getAnalytics keeps
Filtered(map, f) == SelectSeq(map, LAMBDA p : GetAnalyticsKeeps(p, f))

\* projects.reduce((sum, p) => sum + parseFloat(p.cost), 0)
RECURSIVE TotalCost(_)
TotalCost(ps) ==
    IF ps = << >> THEN 0
    ELSE ParseFloat(ps[Len(ps)].cost).v + TotalCost(SubSeq(ps, 1, Len(ps) - 1))

\* new Set(projects.map(p => p.region)).size, counting every project
ActiveRegionsPerProject(ps) == Len(ps)

\* new Set(projects.map(p => p.region)).size
ActiveRegions(ps) == Cardinality({ps[i].region : i \in 1..Len(ps)})

\* totalProjects > 0 ? totalCost / totalProjects : 0
AvgCost(totalProjects, totalCost) ==
    IF totalProjects > 0 THEN Frac(totalCost, totalProjects) ELSE Frac(0, 1)

EmptyMap == [k \in {} |-> 0]

\* map.set(key, {count: existing.count + 1, cost: existing.cost + cost})
Credit(map, key, cost) ==
    LET existing == IF key \in DOMAIN map THEN map[key]
                    ELSE [count |-> 0, cost |-> Frac(0, 1)]
    IN (key :> [count |-> existing.count + 1,
                cost |-> FracAdd(existing.cost, cost)]) @@ map

\* regionMap after projects.forEach
RECURSIVE RegionMap(_)
RegionMap(ps) ==
    IF ps = << >> THEN EmptyMap
    ELSE LET p == ps[Len(ps)]
         IN Credit(RegionMap(SubSeq(ps, 1, Len(ps) - 1)), p.region,
                   Frac(ParseFloat(p.cost).v, 1))

\* filters?.useFullCostForJointVentures || false: any text sent is truthy
UseFullCost(f) == f.useFullCostForJointVentures # Absent

\* p.contractor.split('/').map(c => c.trim())
Contractors(p) ==
    LET parts == Split(p.contractor)
    IN [i \in 1..Len(parts) |-> Trim(parts[i])]

\* useFullCost ? projectCost : projectCost / contractors.length
CostPerContractor(p, f) ==
    IF UseFullCost(f) THEN Frac(ParseFloat(p.cost).v, 1)
    ELSE Frac(ParseFloat(p.cost).v, Len(Contractors(p)))

\* contractors.forEach: every non-empty name is credited
RECURSIVE CreditContractors(_, _, _)
CreditContractors(map, names, cost) ==
    IF names = << >> THEN map
    ELSE CreditContractors(
             IF Head(names) # << >> THEN Credit(map, Head(names), cost)
             ELSE map,
             Tail(names), cost)

\* contractorMap after projects.forEach
RECURSIVE ContractorMap(_, _)
ContractorMap(ps, f) ==
    IF ps = << >> THEN EmptyMap
    ELSE LET p == ps[Len(ps)]
         IN CreditContractors(ContractorMap(SubSeq(ps, 1, Len(ps) - 1), f),
                              Contractors(p), CostPerContractor(p, f))

\* the payload of getAnalytics
Analytics(map, f) ==
    LET ps == Filtered(map, f)
    IN [kind |-> "analytics",
        totalProjects |-> Len(ps),
        totalCost |-> Frac(TotalCost(ps), 1),
        avgCost |-> AvgCost(Len(ps), TotalCost(ps)),
        activeRegions |-> ActiveRegions(ps),
        projectsByRegion |-> RegionMap(ps),
        projectsByContractor |-> ContractorMap(ps, f)]

\* calculateMetrics of the client, over a list of projects
calculateMetrics(ps) ==
    IF Len(ps) = 0
    THEN [totalProjects |-> 0, totalCost |-> Frac(0, 1), avgCost |-> Frac(0, 1),
          activeRegions |-> 0]
    ELSE [totalProjects |-> Len(ps),
          totalCost |-> Frac(TotalCost(ps), 1),
          avgCost |-> Frac(TotalCost(ps), Len(ps)),
          activeRegions |-> ActiveRegions(ps)]

(* --------------------------- POST /api/projects ------------------------ *)
\* the number of ids randomUUID() has generated: every project created is
\* inserted into the projects table and no route deletes from it
CreatedCount ==
    Cardinality({i \in 1..Len(NewIds) : NewIds[i] \in DOMAIN projects})

CreateProject(body) ==
    /\ input' = [kind |-> "create", bodies |-> <<body>>]
    /\ IF ValidProject(body)
       THEN /\ CreatedCount < MaxProjects
            /\ storage' = StoredAfter(storage, <<body>>, CreatedCount)
            /\ projects' = TableAfter(projects,
                                      SubSeq(storage', Len(storage) + 1,
                                             Len(storage')))
            /\ resp' = Resp("projects", "none", 201, "none")
            /\ output' = [kind |-> "created", count |-> 1]
       ELSE /\ resp' = Resp("projects", "none", 400, "Invalid project data")
            /\ output' = NoOutput
            /\ UNCHANGED <<storage, projects>>
    /\ UNCHANGED web
    /\ UNCHANGED <<isLocationVerified, userLocations, reactions, req, last,
                   nsubmit>>

(* ------------------------- POST /api/projects/bulk --------------------- *)
CreateProjects(bodies) ==
    /\ input' = [kind |-> "bulk", bodies |-> bodies]
    /\ IF ValidProjects(bodies)
       THEN /\ CreatedCount + Len(bodies) <= MaxProjects
            /\ storage' = StoredAfter(storage, bodies, CreatedCount)
            /\ projects' = TableAfter(projects,
                                      SubSeq(storage', Len(storage) + 1,
                                             Len(storage')))
            /\ resp' = Resp("projects", "none", 201, "none")
            /\ output' = [kind |-> "created", count |-> Len(bodies)]
       ELSE /\ resp' = Resp("projects", "none", 400, "Invalid projects data")
            /\ output' = NoOutput
            /\ UNCHANGED <<storage, projects>>
    /\ UNCHANGED web
    /\ UNCHANGED <<isLocationVerified, userLocations, reactions, req, last,
                   nsubmit>>

(* --------------------------- GET /api/analytics ------------------------ *)
GetAnalytics(f) ==
    /\ input' = [kind |-> "analytics", filters |-> f]
    /\ output' = Analytics(storage, f)
    /\ resp' = Resp("analytics", "none", 200, "none")
    /\ UNCHANGED web
    /\ UNCHANGED <<projects, isLocationVerified, userLocations, reactions, req,
                   last, nsubmit, storage>>

(* --------------------------- GET /api/projects ------------------------- *)
\* filtersSchema.parse(req.query): a query value is text, so a cost bound
\* (z.number()) or the joint-venture flag (z.boolean()) that is sent fails
ValidFilters(f) ==
    ~f.minCost.set /\ ~f.maxCost.set /\ f.useFullCostForJointVentures = Absent

\* the list is sent, and the client computes its metrics
GetProjects(f) ==
    /\ input' = [kind |-> "list", filters |-> f]
    /\ IF ValidFilters(f)
       THEN LET list == SelectSeq(storage, LAMBDA p : GetProjectsKeeps(p, f))
            IN /\ output' = [kind |-> "list", projects |-> list,
                             metrics |-> calculateMetrics(list)]
               /\ resp' = Resp("list", "none", 200, "none")
       ELSE /\ output' = NoOutput
            /\ resp' = Resp("list", "none", 400, "Invalid filters")
    /\ UNCHANGED web
    /\ UNCHANGED <<projects, isLocationVerified, userLocations, reactions, req,
                   last, nsubmit, storage>>

\* the project store: creation, analytics and lists, one request at a time
NextStorage ==
    \/ \E body \in BodyInputs : CreateProject(body)
    \/ \E bodies \in BulkInputs : CreateProjects(bodies)
    \/ \E f \in FilterInputs : GetAnalytics(f)
    \/ \E f \in FilterInputs : GetProjects(f)

SpecStorage == Init /\ [][NextStorage]_vars

(* ===================== the catalog and the projects table ============== *)
\* the body of PUT /api/projects/:id: the fields sent, their values, and the
\* fields sent with a value insertProjectSchema.partial() refuses
UpdateData(sent, body, invalid) ==
    [sent |-> sent, body |-> body, invalid |-> invalid]

Relocated ==
    [ProjectBody(<<"x">>, <<"m">>, <<"A">>, 100, <<"1">>, <<"N">>, {})
       EXCEPT !.latitude = Num(146300), !.longitude = Num(1210500)]

UpdateInputs ==
    {UpdateData({"latitude", "longitude"}, Relocated, {}),
     UpdateData({"projectname"}, JointVenture, {}),
     UpdateData({"cost"}, Solo, {"cost"})}

UnknownId == "X0"
CatalogIds == {NewIds[i] : i \in 1..MaxProjects} \cup {UnknownId}

\* { ...existing, ...updateData }
Merged(existing, data) ==
    [k \in DOMAIN existing |->
        IF k \in data.sent THEN data.body[k] ELSE existing[k]]

\* the Map keeps the position of a key that is set again
UpdatedMap(map, id, data) ==
    [i \in 1..Len(map) |->
        IF map[i].id = id THEN Merged(map[i], data) ELSE map[i]]

HasProject(map, id) == \E i \in 1..Len(map) : map[i].id = id

(* -------------------------- PUT /api/projects/:id ---------------------- *)
UpdateProject(id, data) ==
    /\ input' = [kind |-> "update", id |-> id]
    /\ output' = NoOutput
    /\ IF data.invalid # {}
       THEN /\ resp' = Resp("projects", "none", 400, "Invalid update data")
            /\ UNCHANGED storage
       ELSE IF ~HasProject(storage, id)
       THEN /\ resp' = Resp("projects", "none", 404, "Project not found")
            /\ UNCHANGED storage
       ELSE /\ storage' = UpdatedMap(storage, id, data)
            /\ resp' = Resp("projects", "none", 200, "none")
    /\ UNCHANGED web
    /\ UNCHANGED <<projects, isLocationVerified, userLocations, reactions, req,
                   last, nsubmit>>

(* ------------------------- DELETE /api/projects/:id -------------------- *)
DeleteProject(id) ==
    /\ input' = [kind |-> "delete", id |-> id]
    /\ output' = NoOutput
    /\ IF HasProject(storage, id)
       THEN /\ storage' = SelectSeq(storage, LAMBDA p : p.id # id)
            /\ resp' = Resp("projects", "none", 200, "none")
       ELSE /\ resp' = Resp("projects", "none", 404, "Project not found")
            /\ UNCHANGED storage
    /\ UNCHANGED web
    /\ UNCHANGED <<projects, isLocationVerified, userLocations, reactions, req,
                   last, nsubmit>>

(* --------------------------- DELETE /api/projects ---------------------- *)
ClearProjects ==
    /\ input' = [kind |-> "clear", id |-> UnknownId]
    /\ output' = NoOutput
    /\ storage' = << >>
    /\ resp' = Resp("projects", "none", 200, "none")
    /\ UNCHANGED web
    /\ UNCHANGED <<projects, isLocationVerified, userLocations, reactions, req,
                   last, nsubmit>>

\* a fresh deployment: the Map and the projects table are both empty
InitCatalog ==
    /\ projects = [p \in {} |-> NoRow]
    /\ isLocationVerified = [u \in UserIds |-> FALSE]
    /\ userLocations = << >>
    /\ reactions = {}
    /\ req = [s \in Slots |-> IdleReq]
    /\ last = IdleReq
    /\ resp = NoResp
    /\ nsubmit = 0
    /\ storage = << >>
    /\ input = NoInput
    /\ output = NoOutput
    /\ InitWeb

NextCatalog ==
    \/ \E body \in BodyInputs : CreateProject(body)
    \/ \E bodies \in BulkInputs : CreateProjects(bodies)
    \/ \E id \in CatalogIds, data \in UpdateInputs : UpdateProject(id, data)
    \/ \E id \in CatalogIds : DeleteProject(id)
    \/ ClearProjects

SpecCatalog == InitCatalog /\ [][NextCatalog]_vars

(* ===================== the distance functions alone ==================== *)
\* calculateDistance of the map tab: the same formula over plain numbers,
\* in 1e-5 m
calculateDistance(lat1, lng1, lat2, lng2) ==
    LET dLat == lat2 - lat1
        dLon == lng2 - lng1
        cc == (CosMilli(lat1) * CosMilli(lat2)) \div 1000
        a == dLat * dLat + (cc * (dLon * dLon)) \div 1000
    IN ISqrt(100 * a) * MetersE5PerTenth

\* points at most some 20 km apart, in 1e-4 degree
Points ==
    {[latitude |-> lat, longitude |-> lng] :
        lat \in {144900, 145995, 146035, 146300},
        lng \in {1209842, 1210000, 1210500}}

DistanceInputs == {[kind |-> "distance", a |-> a, b |-> b] : a, b \in Points}

\* the distance of the rating route with project at p and user at u
RouteDistance(p, u) ==
    HaversineE5(ParseFloat(Num(p.latitude)), ParseFloat(Num(p.longitude)),
                u.latitude, u.longitude)

\* both functions applied to the pair of points, each way round
MeasureDistances ==
    /\ input.kind = "distance"
    /\ output = NoOutput
    /\ output' =
          [kind |-> "distance",
           ab |-> RouteDistance(input.a, input.b),
           ba |-> RouteDistance(input.b, input.a),
           aa |-> RouteDistance(input.a, input.a),
           withinAB |-> WithinRadius(RouteDistance(input.a, input.b)),
           withinBA |-> WithinRadius(RouteDistance(input.b, input.a)),
           mapAB |-> calculateDistance(input.a.latitude, input.a.longitude,
                                       input.b.latitude, input.b.longitude),
           mapBA |-> calculateDistance(input.b.latitude, input.b.longitude,
                                       input.a.latitude, input.a.longitude),
           mapAA |-> calculateDistance(input.a.latitude, input.a.longitude,
                                       input.a.latitude, input.a.longitude)]
    /\ UNCHANGED web
    /\ UNCHANGED <<projects, isLocationVerified, userLocations, reactions, req,
                   last, resp, nsubmit, storage, input>>

InitDistance ==
    /\ projects = InitProjects
    /\ isLocationVerified = [u \in UserIds |-> FALSE]
    /\ userLocations = << >>
    /\ reactions = {}
    /\ req = [s \in Slots |-> IdleReq]
    /\ last = IdleReq
    /\ resp = NoResp
    /\ nsubmit = 0
    /\ storage = << >>
    /\ input \in DistanceInputs
    /\ output = NoOutput
    /\ InitWeb

NextDistance == MeasureDistances

SpecDistance == InitDistance /\ [][NextDistance]_vars

(* ================= GET /api/projects/by-reactions ====================== *)
\* the projects table of the rollup: two projects of contractor A, one of B
RollupProjects ==
    [p \in {"P1", "P2", "P4"} |->
        [latitude |-> Num(145995), longitude |-> Num(1209842),
         contractor |-> IF p = "P4" THEN <<"B">> ELSE <<"A">>]]

\* the reactions tables: every (user, project) pair has no row or one row
ReactionTables ==
    {{[id |-> ReactionId(pair[1], pair[2], 1), userId |-> pair[1],
       projectId |-> pair[2], rating |-> t[pair], comment |-> Null,
       isProximityVerified |-> FALSE] :
          pair \in {x \in DOMAIN t : t[x] # "none"}} :
       t \in [UserIds \X DOMAIN RollupProjects -> ValidRatings \cup {"none"}]}

\* excellent=4, standard=3, sub-standard=2, ghost=1, anything else 0
Score(rating) ==
    IF rating = "excellent" THEN 4
    ELSE IF rating = "standard" THEN 3
    ELSE IF rating = "sub-standard" THEN 2
    ELSE IF rating = "ghost" THEN 1
    ELSE 0

\* the rows of the join for project p
ReactionsOn(p) == {r \in reactions : r.projectId = p}

RECURSIVE SumOfScores(_)
SumOfScores(rows) ==
    IF rows = {} THEN 0
    ELSE LET r == CHOOSE x \in rows : TRUE
         IN Score(r.rating) + SumOfScores(rows \ {r})

RECURSIVE SumOfSquares(_)
SumOfSquares(rows) ==
    IF rows = {} THEN 0
    ELSE LET r == CHOOSE x \in rows : TRUE
         IN Score(r.rating) * Score(r.rating) + SumOfSquares(rows \ {r})

FracGreater(a, b) == a.num * b.den > b.num * a.den

\* the largest of the fractions f[k], k in K, and 0
RECURSIVE MaxOver(_, _)
MaxOver(f, K) ==
    IF K = {} THEN Frac(0, 1)
    ELSE LET k == CHOOSE x \in K : TRUE
             rest == MaxOver(f, K \ {k})
         IN IF FracGreater(f[k], rest) THEN f[k] ELSE rest

\* reactionScore / reactionCount without the guard on the count
AverageReactionScoreOfSum(p) ==
    Frac(SumOfScores(ReactionsOn(p)), 1)

\* reactionCount > 0 ? reactionScore / reactionCount : 0
AverageReactionScore(p) ==
    IF Cardinality(ReactionsOn(p)) > 0
    THEN Frac(SumOfScores(ReactionsOn(p)), Cardinality(ReactionsOn(p)))
    ELSE Frac(0, 1)

\* the rollup of routes.ts: projects left join reactions, every project kept;
\* the groups are sorted by score, so bestScore (the first project's score,
\* `|| 0`) is the largest score of the group
ByReactionsGroups ==
    LET names == {projects[p].contractor : p \in DOMAIN projects}
    IN [c \in names |->
          LET own == {p \in DOMAIN projects : projects[p].contractor = c}
              rolled == [p \in own |->
                           [reactionCount |-> Cardinality(ReactionsOn(p)),
                            averageReactionScore |-> AverageReactionScore(p)]]
          IN [projects |-> rolled,
              bestScore |-> MaxOver([p \in own |-> rolled[p].averageReactionScore],
                                    own)]]

ByReactions ==
    /\ input' = [kind |-> "by-reactions"]
    /\ output' = [kind |-> "by-reactions", groups |-> ByReactionsGroups]
    /\ resp' = Resp("by-reactions", "none", 200, "none")
    /\ UNCHANGED web
    /\ UNCHANGED <<projects, isLocationVerified, userLocations, reactions, req,
                   last, nsubmit, storage>>

(* ------------ GET /api/projects/by-reactions (optimized) --------------- *)
\* a JavaScript value that is a number, or text made of numerals: parts is
\* the one number, or the numerals of the text in order
JsNumber(q) == [text |-> FALSE, parts |-> <<q>>]

\* a bigint or numeric column of a result row: the driver hands it over as
\* text (sql<number> is a type annotation, no mapWith is applied)
PgText(q) == [text |-> TRUE, parts |-> <<q>>]

\* a + b: addition of two numbers, concatenation when either is text
JsAdd(a, b) ==
    IF a.text \/ b.text THEN [text |-> TRUE, parts |-> a.parts \o b.parts]
    ELSE JsNumber(FracAdd(a.parts[1], b.parts[1]))

\* Math.max(a, b): both are converted to numbers
MathMax(a, b) ==
    JsNumber(IF FracGreater(b.parts[1], a.parts[1]) THEN b.parts[1]
             ELSE a.parts[1])

\* variance(...): the sample variance of the scores of at least two rows
Variance(rows) ==
    LET n == Cardinality(rows)
    IN Frac(n * SumOfSquares(rows) - SumOfScores(rows) * SumOfScores(rows),
            n * (n - 1))

\* the row of the grouped inner join for project p
AggregateRow(p) ==
    LET rows == ReactionsOn(p)
        n == Cardinality(rows)
    IN [projectId |-> p,
        contractor |-> projects[p].contractor,
        reactionCount |-> PgText(Frac(n, 1)),
        averageScore |-> PgText(Frac(SumOfScores(rows), n)),
        totalRatings |-> PgText(Frac(n, 1)),
        ghostCount |->
            PgText(Frac(Cardinality({r \in rows : r.rating = "ghost"}), 1)),
        controversyScore |->
            PgText(IF n >= 2 THEN Variance(rows) ELSE Frac(0, 1))]

\* inner join: the projects with at least one reaction and a contractor
JoinedProjects ==
    {p \in DOMAIN projects :
        ReactionsOn(p) # {} /\ projects[p].contractor # << >>}

\* orderBy(contractor, average_score desc): the orders the rows of one
\* contractor may come in
RowOrders(c) ==
    LET own == {p \in JoinedProjects : projects[p].contractor = c}
        n == Cardinality(own)
    IN {o \in [1..n -> own] :
          /\ \A i, j \in 1..n : i # j => o[i] # o[j]
          /\ \A i \in 1..n : \A j \in 1..n :
                i < j => ~FracGreater(AggregateRow(o[j]).averageScore.parts[1],
                                      AggregateRow(o[i]).averageScore.parts[1])}

NewGroup ==
    [projects |-> EmptyMap, bestScore |-> JsNumber(Frac(0, 1)),
     totalRatings |-> JsNumber(Frac(0, 1)), ghostCount |-> JsNumber(Frac(0, 1)),
     controversyScore |-> JsNumber(Frac(0, 1))]

\* contractorData.forEach for the rows of one contractor, in order o
RECURSIVE GroupAfter(_, _)
GroupAfter(o, k) ==
    IF k = 0 THEN NewGroup
    ELSE LET g == GroupAfter(o, k - 1)
             row == AggregateRow(o[k])
         IN [projects |->
                (row.projectId :>
                    [reactionCount |-> row.reactionCount,
                     averageReactionScore |-> row.averageScore]) @@ g.projects,
             bestScore |-> MathMax(g.bestScore, row.averageScore),
             totalRatings |-> JsAdd(g.totalRatings, row.totalRatings),
             ghostCount |-> JsAdd(g.ghostCount, row.ghostCount),
             controversyScore |-> JsAdd(g.controversyScore,
                                        row.controversyScore)]

ByReactionsOptimized ==
    /\ input' = [kind |-> "by-reactions-optimized"]
    /\ LET names == {projects[p].contractor : p \in JoinedProjects}
       IN \E order \in [names -> UNION {RowOrders(c) : c \in names}] :
             /\ \A c \in names : order[c] \in RowOrders(c)
             /\ output' =
                   [kind |-> "by-reactions-optimized",
                    groups |-> [c \in names |->
                                   GroupAfter(order[c], Len(order[c]))]]
    /\ resp' = Resp("by-reactions", "none", 200, "none")
    /\ UNCHANGED web
    /\ UNCHANGED <<projects, isLocationVerified, userLocations, reactions, req,
                   last, nsubmit, storage>>

InitRollup ==
    /\ projects = RollupProjects
    /\ isLocationVerified = [u \in UserIds |-> FALSE]
    /\ userLocations = << >>
    /\ reactions \in ReactionTables
    /\ req = [s \in Slots |-> IdleReq]
    /\ last = IdleReq
    /\ resp = NoResp
    /\ nsubmit = 0
    /\ storage = << >>
    /\ input = NoInput
    /\ output = NoOutput
    /\ InitWeb

NextRollup == ByReactions \/ ByReactionsOptimized

SpecRollup == InitRollup /\ [][NextRollup]_vars

(* ========================= the user leaderboard ======================== *)
LeaderboardLimit == 20

\* count(reactions.id) of the group of user u in users left join reactions
ReactionCountOf(u) == Cardinality({r \in reactions : r.userId = u})

\* the groups without the having clause
LeaderboardUsersAll == UserIds

\* having count(reactions.id) > 0
LeaderboardUsers == {u \in UserIds : ReactionCountOf(u) > 0}

\* order by count(reactions.id) desc: the orders the database may return
LeaderboardOrders(K) ==
    {o \in [1..Cardinality(K) -> K] :
        /\ \A i, j \in 1..Cardinality(K) : i # j => o[i] # o[j]
        /\ \A i, j \in 1..Cardinality(K) :
              i < j => ReactionCountOf(o[i]) >= ReactionCountOf(o[j])}

\* one row of the result: the count is a bigint, handed over as text
LeaderboardRow(u) ==
    [user |-> u, reactionCount |-> PgText(Frac(ReactionCountOf(u), 1))]

(* ------------------------ GET /api/users/leaderboard ------------------- *)
GetLeaderboard ==
    /\ \E o \in LeaderboardOrders(LeaderboardUsers) :
          output' = [kind |-> "leaderboard",
                     rows |-> [i \in 1..IF Len(o) < LeaderboardLimit
                                        THEN Len(o) ELSE LeaderboardLimit
                               |-> LeaderboardRow(o[i])]]
    /\ input' = [kind |-> "leaderboard"]
    /\ resp' = Resp("leaderboard", "none", 200, "none")
    /\ UNCHANGED web
    /\ UNCHANGED <<projects, isLocationVerified, userLocations, reactions, req,
                   last, nsubmit, storage>>

LeaderboardProjectIds == {"P1", "P2"}
LeaderboardRatingInputs == {"excellent", "ghost"}
LeaderboardLocationInputs == {NoLocation, Near}

\* rating requests and leaderboard requests, one at a time
NextLeaderboard ==
    \/ \E u \in UserIds, p \in LeaderboardProjectIds,
          rating \in LeaderboardRatingInputs,
          loc \in LeaderboardLocationInputs :
            SubmitRating(u, p, rating, Absent, loc)
    \/ GetLeaderboard

SpecLeaderboard == Init /\ [][NextLeaderboard]_vars

(* ===================== PUT /api/auth/user/settings ===================== *)
MaxNameLength == 50
MinUsernameLength == 3
MaxUsernameLength == 20

LongName == [i \in 1..(MaxNameLength + 1) |-> "x"]

NameInputs ==
    {AbsentField, NullField, TextField(<<"A", "l">>), TextField(LongName)}

UsernameInputs ==
    {AbsentField, NullField, TextField(<< >>), TextField(<<"a", "b">>),
     TextField(<<"b", "o", "b">>), TextField(<<"a", "m", "y">>),
     TextField(<<"a", " ", "b">>)}

\* /^[a-zA-Z0-9_]+$/ over the characters of the inputs
WordChars == {"a", "b", "l", "m", "n", "o", "x", "y", "A", "B", "N", "_"}

\* a text that is neither undefined, null nor ''
TruthyField(f) == f.kind = "text" /\ f.text # << >>

NameInvalid(name) ==
    TruthyField(name)
    /\ (Len(name.text) < 1 \/ Len(name.text) > MaxNameLength)

UsernameLengthInvalid(username) ==
    TruthyField(username)
    /\ (Len(username.text) < MinUsernameLength
        \/ Len(username.text) > MaxUsernameLength)

UsernameCharsInvalid(username) ==
    TruthyField(username)
    /\ \E i \in 1..Len(username.text) : username.text[i] \notin WordChars

\* the select for the username is made
UsernameChecked(username) ==
    TruthyField(username) /\ Trim(username.text) # << >>

NoUser == "none"

\* select id from users where username = ... limit 1: the ids it may return
ExistingUser(username) ==
    LET rows == {v \in UserIds : users[v].username = Text(Trim(username.text))}
    IN IF rows = {} THEN {NoUser} ELSE rows

\* updateData applied to the user's row
UpdatedUser(row, name, username) ==
    [name |-> IF name.kind = "undefined" THEN row.name
              ELSE IF TruthyField(name) THEN Text(name.text) ELSE NullText,
     username |-> IF username.kind = "undefined" THEN row.username
                  ELSE IF UsernameChecked(username)
                  THEN Text(Trim(username.text)) ELSE NullText]

\* the handler up to the update: validation and the select of the username
SettingsCheck(u, name, username) ==
    /\ settings[u].pc = "idle"
    /\ input' = [kind |-> "settings", userId |-> u, name |-> name,
                 username |-> username]
    /\ IF NameInvalid(name)
       THEN /\ resp' = Resp("settings", u, 400,
                            "Name must be between 1 and 50 characters")
            /\ UNCHANGED settings
       ELSE IF UsernameLengthInvalid(username)
       THEN /\ resp' = Resp("settings", u, 400,
                            "Username must be between 3 and 20 characters")
            /\ UNCHANGED settings
       ELSE IF UsernameCharsInvalid(username)
       THEN /\ resp' = Resp("settings", u, 400,
              "Username can only contain letters, numbers, and underscores")
            /\ UNCHANGED settings
       ELSE IF UsernameChecked(username)
       THEN \E existingUser \in ExistingUser(username) :
               IF existingUser # NoUser /\ existingUser # u
               THEN /\ resp' = Resp("settings", u, 400,
                                    "Username already taken")
                    /\ UNCHANGED settings
               ELSE /\ settings' = [settings EXCEPT ![u] =
                           [pc |-> "update", name |-> name,
                            username |-> username]]
                    /\ UNCHANGED resp
       ELSE /\ settings' = [settings EXCEPT ![u] =
                   [pc |-> "update", name |-> name, username |-> username]]
            /\ UNCHANGED resp
    /\ UNCHANGED <<users, click, cache, output>>
    /\ UNCHANGED <<projects, isLocationVerified, userLocations, reactions, req,
                   last, nsubmit, storage>>

\* name is declared notNull: an update that sets it to null raises
NotNullViolation(row) == row.name.null

\* update users set ... where id = userId, and the answer
SettingsUpdate(u) ==
    /\ settings[u].pc = "update"
    /\ LET row == UpdatedUser(users[u], settings[u].name,
                              settings[u].username)
       IN IF NotNullViolation(row)
          THEN /\ resp' = Resp("settings", u, 500,
                               "Failed to update user settings")
               /\ UNCHANGED users
          ELSE /\ users' = [users EXCEPT ![u] = row]
               /\ resp' = Resp("settings", u, 200, "none")
    /\ settings' = [settings EXCEPT ![u] = IdleSettings]
    /\ UNCHANGED <<click, cache, input, output>>
    /\ UNCHANGED <<projects, isLocationVerified, userLocations, reactions, req,
                   last, nsubmit, storage>>

\* the settings requests of the users, one in flight per user
NextSettings ==
    \/ \E u \in UserIds, name \in NameInputs, username \in UsernameInputs :
          SettingsCheck(u, name, username)
    \/ \E u \in UserIds : SettingsUpdate(u)

SpecSettings == Init /\ [][NextSettings]_vars

(* ========================== the query cache ============================ *)
CacheProjectIds == {"P1", "P2"}
CacheRatingInputs == {"excellent"}

\* queryKey matching of invalidateQueries: the filter key is a prefix
KeyMatches(filter, key) ==
    Len(filter) <= Len(key) /\ SubSeq(key, 1, Len(filter)) = filter

\* invalidateQueries({ queryKey: filter })
Invalidated(entries, filter) ==
    [k \in QueryKeys |->
        IF KeyMatches(filter, k) /\ entries[k].present
        THEN [entries[k] EXCEPT !.stale = TRUE] ELSE entries[k]]

\* the reads a rating of project p changes: the reaction list of p and the
\* by-reactions rollup
DependsOn(k, p) == k = ReactionsKey(p) \/ k[1] = "projects-by-reactions"

\* addReaction.mutate: the body carries rating, comment and userLocation, so
\* the route finds neither latitude nor longitude in it
Mutate(p, rating) ==
    /\ cache.settled = nsubmit
    /\ SubmitRating(cache.user, p, rating, Absent, NoLocation)

\* the callbacks of the mutation: onSuccess invalidates the reaction list of
\* the project; a response that is not ok runs onError
MutationSettled ==
    /\ cache.settled < nsubmit
    /\ cache' = IF resp.status = 200
                THEN [cache EXCEPT
                        !.entries = Invalidated(cache.entries,
                                                ReactionsKey(last.projectId)),
                        !.settled = nsubmit,
                        !.lastWrite = [k \in QueryKeys |->
                            IF DependsOn(k, last.projectId) THEN nsubmit
                            ELSE cache.lastWrite[k]]]
                ELSE [cache EXCEPT !.settled = nsubmit]
    /\ UNCHANGED <<users, settings, click, memory, resp>>
    /\ UNCHANGED <<projects, isLocationVerified, userLocations, reactions, req,
                   last, nsubmit>>

\* useQuery: a query without data or with stale data is fetched, a fresh one
\* is answered from the cache
ReadQuery(k) ==
    /\ cache' = IF cache.entries[k].present /\ ~cache.entries[k].stale
                THEN [cache EXCEPT !.answer =
                        [key |-> k, from |-> "cache",
                         filledAt |-> cache.entries[k].filledAt,
                         lastWrite |-> cache.lastWrite[k]]]
                ELSE [cache EXCEPT
                        !.entries[k] = [present |-> TRUE, stale |-> FALSE,
                                        filledAt |-> nsubmit],
                        !.answer = [key |-> k, from |-> "server",
                                    filledAt |-> nsubmit,
                                    lastWrite |-> cache.lastWrite[k]]]
    /\ UNCHANGED <<users, settings, click, memory, resp>>
    /\ UNCHANGED <<projects, isLocationVerified, userLocations, reactions, req,
                   last, nsubmit>>

\* staleTime has passed since the query was fetched
BecomeStale(k) ==
    /\ cache.entries[k].present /\ ~cache.entries[k].stale
    /\ cache' = [cache EXCEPT !.entries[k].stale = TRUE]
    /\ UNCHANGED <<users, settings, click, memory, resp>>
    /\ UNCHANGED <<projects, isLocationVerified, userLocations, reactions, req,
                   last, nsubmit>>

InitCache ==
    /\ projects = InitProjects
    /\ isLocationVerified = [u \in UserIds |-> FALSE]
    /\ userLocations = << >>
    /\ reactions = {}
    /\ req = [s \in Slots |-> IdleReq]
    /\ last = IdleReq
    /\ resp = NoResp
    /\ nsubmit = 0
    /\ storage = << >>
    /\ input = NoInput
    /\ output = NoOutput
    /\ users = InitUsers
    /\ settings = [u \in UserIds |-> IdleSettings]
    /\ click = << >>
    /\ cache \in {EmptyCache(u) : u \in UserIds}

\* one browser: its rating submissions and its reads
NextCache ==
    \/ \E p \in CacheProjectIds, rating \in CacheRatingInputs : Mutate(p, rating)
    \/ MutationSettled
    \/ \E k \in QueryKeys : ReadQuery(k)
    \/ \E k \in QueryKeys : BecomeStale(k)

SpecCache == InitCache /\ [][NextCache]_vars

(* ============================ rating clicks ============================ *)
GeolocationTimeoutMs == 10000

ClickProjectIds == {"P1"}
ClickRatingInputs == {"excellent", "ghost"}
PositionInputs == {Near, Far}

\* navigator.geolocation is missing, or the permission of the origin is not
\* decided yet, granted or denied
GeolocationStates == {"unsupported", "prompt", "granted", "denied"}

\* the variables of one addReaction.mutate call
Mutation(p, rating, userLocation) ==
    [projectId |-> p, rating |-> rating, userLocation |-> userLocation]

\* handleReactionClick(project, rating)
ClickRating(p, rating, isAuthenticated, geolocation) ==
    /\ Len(click) < MaxClicks
    /\ click' = Append(click,
          IF ~isAuthenticated
          THEN [projectId |-> p, rating |-> rating, phase |-> "login",
                error |-> "none", mutations |-> << >>]
          ELSE IF geolocation = "unsupported"
          THEN [projectId |-> p, rating |-> rating, phase |-> "done",
                error |-> "unsupported",
                mutations |-> <<Mutation(p, rating, NoLocation)>>]
          ELSE [projectId |-> p, rating |-> rating,
                phase |-> IF geolocation = "granted" THEN "acquiring"
                          ELSE geolocation,
                error |-> "none", mutations |-> << >>])
    /\ UNCHANGED <<users, settings, cache, memory, resp>>
    /\ UNCHANGED <<projects, isLocationVerified, userLocations, reactions, req,
                   last, nsubmit>>

\* the user answers the permission prompt; the timeout of getCurrentPosition
\* runs from the moment the permission is granted
AnswerPrompt(i, granted) ==
    /\ i \in 1..Len(click)
    /\ click[i].phase = "prompt"
    /\ click' = [click EXCEPT ![i].phase =
                    IF granted THEN "acquiring" ELSE "denied"]
    /\ UNCHANGED <<users, settings, cache, memory, resp>>
    /\ UNCHANGED <<projects, isLocationVerified, userLocations, reactions, req,
                   last, nsubmit>>

\* the success callback: the rating is submitted with the coordinates
PositionCallback(i, position) ==
    /\ i \in 1..Len(click)
    /\ click[i].phase = "acquiring"
    /\ click' = [click EXCEPT
          ![i].phase = "done",
          ![i].mutations = Append(@, Mutation(click[i].projectId,
                                              click[i].rating, position))]
    /\ UNCHANGED <<users, settings, cache, memory, resp>>
    /\ UNCHANGED <<projects, isLocationVerified, userLocations, reactions, req,
                   last, nsubmit>>

\* the errors the browser may report in the phase of the request
PositionErrors(phase) ==
    IF phase = "denied" THEN {"PERMISSION_DENIED"}
    ELSE IF phase = "acquiring" THEN {"POSITION_UNAVAILABLE", "TIMEOUT"}
    ELSE {}

\* the error callback: the rating is submitted without a location
ErrorCallback(i, error) ==
    /\ i \in 1..Len(click)
    /\ error \in PositionErrors(click[i].phase)
    /\ click' = [click EXCEPT
          ![i].phase = "done", ![i].error = error,
          ![i].mutations = Append(@, Mutation(click[i].projectId,
                                              click[i].rating, NoLocation))]
    /\ UNCHANGED <<users, settings, cache, memory, resp>>
    /\ UNCHANGED <<projects, isLocationVerified, userLocations, reactions, req,
                   last, nsubmit>>

\* the browser calls one of the two callbacks of request i
BrowserCallback(i) ==
    \/ \E position \in PositionInputs : PositionCallback(i, position)
    \/ \E error \in {"PERMISSION_DENIED", "POSITION_UNAVAILABLE", "TIMEOUT"} :
          ErrorCallback(i, error)

NextClick ==
    \/ \E p \in ClickProjectIds, rating \in ClickRatingInputs,
          isAuthenticated \in BOOLEAN, geolocation \in GeolocationStates :
            ClickRating(p, rating, isAuthenticated, geolocation)
    \/ \E i \in 1..MaxClicks, granted \in BOOLEAN : AnswerPrompt(i, granted)
    \/ \E i \in 1..MaxClicks : BrowserCallback(i)

SpecClick == Init /\ [][NextClick]_vars

\* the browser calls back once the permission is decided: at the latest when
\* the timeout passed to getCurrentPosition expires. Nothing makes the user
\* answer the prompt.
SpecClickFair ==
    SpecClick /\ \A i \in 1..MaxClicks : WF_vars(BrowserCallback(i))

TypeOK ==
    /\ nsubmit \in 0..MaxSubmits
    /\ \A s \in Slots : req[s].pc \in {"idle", "lookup", "write"}

(* ============================ properties =============================== *)

\* the state right after a rating request was answered: last holds its locals
AfterSubmit == resp.route = "reactions" /\ last.pc = "done"

\* a step that handles a rating request from start to response
SubmitStep == nsubmit' = nsubmit + 1

ProjectExists(p) == p \in DOMAIN projects

NumericCoordinates(p) ==
    ProjectExists(p) /\ ~projects[p].latitude.nan /\ ~projects[p].longitude.nan

\* the distance from a submitted location to the project, in 1e-5 m
InputDistance(loc, p) ==
    HaversineE5(ParseFloat(projects[p].latitude),
                ParseFloat(projects[p].longitude), loc.latitude, loc.longitude)

\* the submitted location is more than 500 m from the project (more than
\* 0.2 degree apart is more than 500 m)
FartherThanRadius(loc, p) ==
    /\ loc.present
    /\ NumericCoordinates(p)
    /\ \/ Abs(loc.latitude - projects[p].latitude.v) > 2000
       \/ Abs(loc.longitude - projects[p].longitude.v) > 2000
       \/ InputDistance(loc, p).v > WithinE5

\* the submitted location is at most 500 m from the project
WithinRadiusOfProject(loc, p) ==
    loc.present /\ NumericCoordinates(p) /\ ~FartherThanRadius(loc, p)

\* the comment a request asks the ledger to hold
RequestedComment(r) == IF r.comment = Absent THEN Null ELSE r.comment

\* the row carries the rating, comment and verified flag of request r
Carries(row, r) ==
    /\ row.rating = r.rating
    /\ row.comment = RequestedComment(r)
    /\ row.isProximityVerified = r.isProximityVerified

\* C1: a non-admin submission with a location farther than 500 m from the
\* project is answered with the proximity error (tooFar, required 500, the
\* distance rounded to the metre) and leaves the reactions table as it was.
C1_TooFarRejectedAndNotStored ==
    [][(SubmitStep /\ ~last'.isAdminUser
        /\ FartherThanRadius(last'.userLocation, last'.projectId))
       => /\ resp'.status = 400
          /\ resp'.error = "Proximity verification failed"
          /\ resp'.tooFar
          /\ resp'.required = RequiredMeters
          /\ resp'.distance
                = RoundMeters(InputDistance(last'.userLocation, last'.projectId))
          /\ reactions' = reactions]_vars

\* C2: the reactions table never holds two rows for one (user, project) pair.
C2_AtMostOneRowPerPair ==
    \A u \in UserIds, p \in ProjectIds : Cardinality(RowsOf(u, p)) <= 1

\* C2 witness: two requests for one pair raced on the insert, one was refused
\* by the unique constraint, and the pair has its one row
C2_Witness ==
    /\ AfterSubmit
    /\ resp.status = 500
    /\ ProjectExists(last.projectId)
    /\ Cardinality(RowsOf(last.userId, last.projectId)) = 1

\* C3: after a rating request for an existing project the pair has exactly one
\* row, and it carries the rating, comment and verified flag of that request.
C3_RowReflectsLastSubmission ==
    (AfterSubmit /\ ProjectExists(last.projectId))
    => \E row \in reactions :
          /\ RowsOf(last.userId, last.projectId) = {row}
          /\ Carries(row, last)

\* C4: when a request writes after another request for the same pair was
\* answered, the pair has exactly one row and it carries the rating, comment
\* and verified flag of one of the two.
C4_ConcurrentSubmissionsSerialize ==
    [][\A s \in Slots :
         (/\ req[s].pc = "write" /\ req'[s].pc = "idle"
          /\ last.pc = "done"
          /\ last.userId = req[s].userId /\ last.projectId = req[s].projectId)
         => \E row \in reactions' :
               /\ {r \in reactions' : r.userId = req[s].userId
                                       /\ r.projectId = req[s].projectId} = {row}
               /\ (Carries(row, req[s]) \/ Carries(row, last))]_vars

\* C5: an admin submission for an existing project is answered 200 and its
\* row is stored with isProximityVerified = TRUE, whatever location it sends.
C5_AdminAlwaysVerified ==
    (AfterSubmit /\ last.isAdminUser /\ ProjectExists(last.projectId))
    => /\ resp.status = 200
       /\ resp.proximityVerified
       /\ RowsOf(last.userId, last.projectId) # {}
       /\ \A row \in RowsOf(last.userId, last.projectId) :
             row.isProximityVerified

\* C5 witness: the admin sent a location farther than 500 m and was accepted
C5_Witness ==
    /\ AfterSubmit
    /\ last.isAdminUser
    /\ FartherThanRadius(last.userLocation, last.projectId)
    /\ resp.status = 200
    /\ \E row \in RowsOf(last.userId, last.projectId) : row.isProximityVerified

StoredLocationIs(table, u, loc) ==
    /\ \E i \in 1..Len(table) : table[i].userId = u
    /\ \A i \in 1..Len(table) :
          table[i].userId = u
          => /\ table[i].latitude = Num(loc.latitude)
             /\ table[i].longitude = Num(loc.longitude)

\* C7: a rating request that carries a location stores it as the user's
\* UserLocation and sets the user's isLocationVerified, whatever the outcome
\* of the rating; a request without location changes neither.
C7_SubmittedLocationStored ==
    [][SubmitStep
       => IF last'.userLocation.present
          THEN /\ StoredLocationIs(userLocations', last'.userId,
                                   last'.userLocation)
               /\ isLocationVerified'[last'.userId]
          ELSE UNCHANGED <<userLocations, isLocationVerified>>]_vars

\* C8: a rating request whose rating is not one of the four categories is
\* refused and changes no table.
C8_InvalidRatingRejected ==
    [][(SubmitStep /\ last'.rating \notin ValidRatings)
       => /\ resp'.status # 200
          /\ UNCHANGED <<reactions, userLocations, isLocationVerified>>]_vars

\* C9: a non-admin request with a location for a project whose stored
\* coordinates are not numeric is accepted and stored unverified, with no
\* proximity error.
C9_MalformedCoordinatesAccepted ==
    (/\ AfterSubmit /\ ~last.isAdminUser
     /\ ProjectExists(last.projectId) /\ ~NumericCoordinates(last.projectId)
     /\ last.userLocation.present)
    => /\ resp.status = 200
       /\ resp.error # "Proximity verification failed"
       /\ \E row \in RowsOf(last.userId, last.projectId) :
             ~row.isProximityVerified

\* C10: a rating request for a project id that does not exist, and a
\* verify-proximity request for a reaction id that does not exist, are each
\* answered not-found and change no table.
C10_NotFoundNoSideEffects ==
    [][/\ (SubmitStep /\ ~ProjectExists(last'.projectId))
          => /\ resp'.status = 404
             /\ UNCHANGED <<reactions, userLocations, isLocationVerified>>
       /\ (resp'.route = "verify" /\ resp'.error = "Reaction not found")
          => /\ resp'.status = 404
             /\ UNCHANGED <<reactions, userLocations, isLocationVerified>>]_vars

\* C11: the isProximityVerified flag of a stored row changes only in a step
\* that handles a rating request of the row's user for the row's project.
C11_FlagChangesOnlyByResubmission ==
    [][\A x \in reactions : \A y \in reactions' :
          (x.id = y.id /\ x.isProximityVerified # y.isProximityVerified)
          => /\ SubmitStep
             /\ last'.userId = x.userId
             /\ last'.projectId = x.projectId]_vars

\* the row of user_locations written last for the user (0: none)
LatestLocationOf(table, u) ==
    LET idx == {i \in 1..Len(table) : table[i].userId = u}
    IN IF idx = {} THEN 0 ELSE CHOOSE i \in idx : \A j \in idx : i >= j

\* C12: a verify-proximity request that reaches its decision decides on the
\* location written last for the user.
C12_VerifyUsesLatestLocation ==
    [][(resp'.route = "verify" /\ resp'.status = 200)
       => \E row \in reactions' :
             /\ row.userId = resp'.userId
             /\ row.isProximityVerified = resp'.proximityVerified
             /\ resp'.proximityVerified
                  = VerifiedByStoredLocation(
                        row,
                        userLocations[LatestLocationOf(userLocations,
                                                       resp'.userId)])]_vars

\* the state right after an analytics request was answered
AfterAnalytics == resp.route = "analytics" /\ input.kind = "analytics"

\* the distinct non-empty contractor names of a project
NamedContractors(p) ==
    {Contractors(p)[i] : i \in 1..Len(Contractors(p))} \ {<< >>}

\* the credit one project owes each contractor it names
ShareOf(p, f) ==
    IF f.useFullCostForJointVentures = "true"
    THEN Frac(ParseFloat(p.cost).v, 1)
    ELSE Frac(ParseFloat(p.cost).v, Cardinality(NamedContractors(p)))

\* the sum of the credits the projects owe contractor c
RECURSIVE CreditOwed(_, _, _)
CreditOwed(c, ps, f) ==
    IF ps = << >> THEN Frac(0, 1)
    ELSE LET rest == CreditOwed(c, Tail(ps), f)
         IN IF c \in NamedContractors(Head(ps))
            THEN FracAdd(ShareOf(Head(ps), f), rest)
            ELSE rest

\* C13: with the joint-venture flag not sent every contractor is credited,
\* per project naming it, the cost divided by the number of distinct non-empty
\* names of the project; with the flag sent as true, the full cost.
C13_JointVentureCredit ==
    (AfterAnalytics /\ input.filters.useFullCostForJointVentures # "false")
    => LET ps == Filtered(storage, input.filters)
       IN \A i \in 1..Len(ps) : \A c \in NamedContractors(ps[i]) :
             /\ c \in DOMAIN output.projectsByContractor
             /\ output.projectsByContractor[c].cost
                  = CreditOwed(c, ps, input.filters)

\* the sum of the costs of the projects at the indices in S
RECURSIVE SumOfCosts(_, _)
SumOfCosts(ps, S) ==
    IF S = {} THEN 0
    ELSE LET i == CHOOSE k \in S : TRUE
         IN ParseFloat(ps[i].cost).v + SumOfCosts(ps, S \ {i})

\* the sums of the counts and of the costs of the groups of a grouping
RECURSIVE SumOfCounts(_, _)
SumOfCounts(map, K) ==
    IF K = {} THEN 0
    ELSE LET k == CHOOSE x \in K : TRUE
         IN map[k].count + SumOfCounts(map, K \ {k})

RECURSIVE SumOfGroupCosts(_, _)
SumOfGroupCosts(map, K) ==
    IF K = {} THEN Frac(0, 1)
    ELSE LET k == CHOOSE x \in K : TRUE
         IN FracAdd(map[k].cost, SumOfGroupCosts(map, K \ {k}))

\* the four totals are those of the list ps
TotalsOf(m, ps) ==
    /\ m.totalProjects = Len(ps)
    /\ m.totalCost = Frac(SumOfCosts(ps, 1..Len(ps)), 1)
    /\ m.activeRegions = Cardinality({ps[i].region : i \in 1..Len(ps)})
    /\ m.avgCost = IF Len(ps) = 0 THEN Frac(0, 1)
                   ELSE Frac(SumOfCosts(ps, 1..Len(ps)), Len(ps))

\* C14: the analytics of a filtered project set report the number of
\* projects, the sum of their costs, the number of distinct regions and the
\* average cost (0 for the empty set), and the per-region counts and costs add
\* up to the totals; calculateMetrics reports the same four totals of a list.
C14_AnalyticsTotals ==
    /\ AfterAnalytics
       => /\ TotalsOf(output, Filtered(storage, input.filters))
          /\ SumOfCounts(output.projectsByRegion,
                         DOMAIN output.projectsByRegion) = output.totalProjects
          /\ SumOfGroupCosts(output.projectsByRegion,
                             DOMAIN output.projectsByRegion) = output.totalCost
    /\ (resp.route = "list" /\ resp.status = 200)
       => TotalsOf(output.metrics, output.projects)

\* C14 witness: analytics over two projects of one region
C14_Witness ==
    /\ AfterAnalytics
    /\ Len(Filtered(storage, input.filters)) = 2
    /\ output.totalProjects = 2
    /\ output.activeRegions = 1
    /\ output.avgCost = Frac(100, 1)

\* the filter as stated: search over name, location, contractor, region and
\* notes, inclusive cost bounds, exact region, contractor, fiscal year and
\* status, and location as a substring, text compared without case
KeptAsStated(p, f) ==
    /\ f.search # << >> =>
          \E field \in {p.projectname, p.location, p.contractor, p.region,
                        p.other_details} :
             Includes(ToLowerCase(field), ToLowerCase(f.search))
    /\ f.minCost.set => ParseFloat(p.cost).v >= f.minCost.v
    /\ f.maxCost.set => ParseFloat(p.cost).v <= f.maxCost.v
    /\ f.region # << >> => p.region = f.region
    /\ f.contractor # << >> => p.contractor = f.contractor
    /\ f.fiscalYear # << >> => p.fy = f.fiscalYear
    /\ f.status # << >> => p.status = f.status
    /\ f.location # << >> =>
          Includes(ToLowerCase(p.location), ToLowerCase(f.location))

\* C17: the projects that the analytics are computed over are exactly the
\* stored projects that the stated filter keeps.
C17_FilterPrePass ==
    AfterAnalytics
    => /\ Filtered(storage, input.filters)
            = SelectSeq(storage, LAMBDA p : KeptAsStated(p, input.filters))
       /\ output.totalProjects
            = Cardinality({i \in 1..Len(storage) :
                              KeptAsStated(storage[i], input.filters)})

\* the body lacks a field the projects table requires
MissesRequiredField(body) == \E field \in RequiredFields : field \in body.missing

\* C18: a create or bulk-create request in which some project lacks a
\* required field is refused and leaves the project store and the projects
\* table as they were.
C18_InvalidCreateChangesNothing ==
    [][(/\ input'.kind \in {"create", "bulk"}
        /\ \E i \in 1..Len(input'.bodies) :
              MissesRequiredField(input'.bodies[i]))
       => /\ resp'.status = 400
          /\ UNCHANGED <<storage, projects>>]_vars

\* C18 witness: a bulk request with a valid and an invalid project was refused
\* while the store held a project
C18_Witness ==
    /\ input.kind = "bulk"
    /\ \E i \in 1..Len(input.bodies) : MissesRequiredField(input.bodies[i])
    /\ \E i \in 1..Len(input.bodies) : ~MissesRequiredField(input.bodies[i])
    /\ resp.route = "projects" /\ resp.status = 400
    /\ Len(storage) = 1

\* C19: the distance between two points is the same whichever of them is the
\* project and whichever the user, the distance of a point to itself is 0, and
\* the within-500 m decision is the same both ways round.
C19_DistanceSymmetric ==
    output.kind = "distance"
    => /\ output.ab = output.ba
       /\ output.aa = Num(0)
       /\ output.withinAB = output.withinBA
       /\ output.mapAB = output.mapBA
       /\ output.mapAA = 0

\* C19 witness: two different points within 500 m of each other were measured
C19_Witness ==
    /\ output.kind = "distance"
    /\ input.a # input.b
    /\ output.ab.v > 0
    /\ output.withinAB

\* C20: a rating request for an existing project that would be accepted on
\* its own is answered 200 also when another request for the same pair is in
\* flight.
C20_ConcurrentSubmissionsBothSucceed ==
    [][\A s \in Slots :
         (/\ req[s].pc = "write" /\ req'[s].pc = "idle"
          /\ ProjectExists(req[s].projectId)
          /\ ~ProximityRejected(req[s].userLocation, req[s].proximityDetails,
                                req[s].isProximityVerified, req[s].isAdminUser))
         => resp'.status = 200]_vars

\* the state right after the optimized rollup was answered
AfterOptimizedRollup ==
    resp.route = "by-reactions" /\ output.kind = "by-reactions-optimized"

\* the projects of contractor c, and the reaction rows on them
ProjectsOfContractor(c) == {p \in DOMAIN projects : projects[p].contractor = c}

ReactionsOfContractor(c) ==
    {r \in reactions : r.projectId \in ProjectsOfContractor(c)}

\* the sum of the squared deviations of the scores from their mean, times n*n
RECURSIVE SquaredDeviations(_, _, _)
SquaredDeviations(rows, n, sum) ==
    IF rows = {} THEN 0
    ELSE LET r == CHOOSE x \in rows : TRUE
             d == n * Score(r.rating) - sum
         IN d * d + SquaredDeviations(rows \ {r}, n, sum)

\* the variance of the ratings of project p, 0 below two ratings
ControversyOf(p) ==
    LET rows == ReactionsOn(p)
        n == Cardinality(rows)
    IN IF n < 2 THEN Frac(0, 1)
       ELSE Frac(SquaredDeviations(rows, n, SumOfScores(rows)),
                 n * n * (n - 1))

RECURSIVE SumOfControversy(_)
SumOfControversy(P) ==
    IF P = {} THEN Frac(0, 1)
    ELSE LET p == CHOOSE x \in P : TRUE
         IN FracAdd(ControversyOf(p), SumOfControversy(P \ {p}))

\* the mean of the scores of the ratings on project p (0 without ratings)
MeanScore(p) ==
    IF ReactionsOn(p) = {} THEN Frac(0, 1)
    ELSE Frac(SumOfScores(ReactionsOn(p)), Cardinality(ReactionsOn(p)))

\* C15: every contractor of the optimized rollup carries the largest mean
\* score of its projects as bestScore, the number of ratings on its projects as
\* totalRatings, the number of ghost ratings as ghostCount and the sum of the
\* per-project variances (0 below two ratings) as controversyScore.
C15_ContractorAggregates ==
    AfterOptimizedRollup
    => \A c \in DOMAIN output.groups :
          LET g == output.groups[c]
              own == ProjectsOfContractor(c)
          IN /\ g.bestScore = JsNumber(MaxOver([p \in own |-> MeanScore(p)], own))
             /\ g.totalRatings
                  = JsNumber(Frac(Cardinality(ReactionsOfContractor(c)), 1))
             /\ g.ghostCount
                  = JsNumber(Frac(Cardinality({r \in ReactionsOfContractor(c) :
                                                  r.rating = "ghost"}), 1))
             /\ g.controversyScore = JsNumber(SumOfControversy(own))

\* the state right after the rollup of routes.ts was answered
AfterRollup == resp.route = "by-reactions" /\ output.kind = "by-reactions"

\* the rollup of routes.ts reports project p with its count and mean score
RolledUp(p) ==
    /\ projects[p].contractor \in DOMAIN output.groups
    /\ p \in DOMAIN output.groups[projects[p].contractor].projects
    /\ LET e == output.groups[projects[p].contractor].projects[p]
       IN /\ e.reactionCount = Cardinality(ReactionsOn(p))
          /\ e.averageReactionScore = MeanScore(p)

\* the optimized rollup reports project p with its count and mean score, as
\* numbers or as numerals
RolledUpOptimized(p) ==
    /\ projects[p].contractor \in DOMAIN output.groups
    /\ p \in DOMAIN output.groups[projects[p].contractor].projects
    /\ LET e == output.groups[projects[p].contractor].projects[p]
       IN /\ e.reactionCount.parts = <<Frac(Cardinality(ReactionsOn(p)), 1)>>
          /\ e.averageReactionScore.parts = <<MeanScore(p)>>

LocationsOf(table, u) == SelectSeq(table, LAMBDA row : row.userId = u)

\* C22: a rating request of user U for project P leaves the rows of every
\* other (user, project) pair, and the stored locations and the
\* location-verified flag of every other user, as they were.
C22_SubmissionTouchesOwnPairOnly ==
    [][SubmitStep
       => /\ \A u \in UserIds, p \in ProjectIds :
                (u # last'.userId \/ p # last'.projectId)
                => {r \in reactions' : r.userId = u /\ r.projectId = p}
                       = RowsOf(u, p)
          /\ \A u \in UserIds \ {last'.userId} :
                /\ isLocationVerified'[u] = isLocationVerified[u]
                /\ LocationsOf(userLocations', u)
                       = LocationsOf(userLocations, u)]_vars

\* C22 witness: a request was answered while another user held a row for the
\* same project and a stored location
C22_Witness ==
    /\ AfterSubmit
    /\ resp.status = 200
    /\ RowsOf(last.userId, last.projectId) # {}
    /\ \E u \in UserIds \ {last.userId} :
          /\ RowsOf(u, last.projectId) # {}
          /\ LocationsOf(userLocations, u) # << >>

\* the owner of a reaction id
OwnerOf(rid) == rid[1]

\* C30: a verify-proximity request for a stored reaction of another user is
\* answered 'Reaction not found' and changes no reaction row.
C30_VerifyOwnReactionsOnly ==
    [][(/\ input'.kind = "verify" /\ resp'.route = "verify"
        /\ \E r \in reactions : r.id = input'.reactionId
        /\ OwnerOf(input'.reactionId) # resp'.userId)
       => /\ resp'.status = 404
          /\ resp'.error = "Reaction not found"
          /\ reactions' = reactions]_vars

\* C30 witness: a user with a stored location asked for the verification of
\* another user's stored reaction and was refused
C30_Witness ==
    /\ input.kind = "verify" /\ resp.route = "verify"
    /\ \E r \in reactions : r.id = input.reactionId
    /\ OwnerOf(input.reactionId) # resp.userId
    /\ LocationsOf(userLocations, resp.userId) # << >>
    /\ resp.status = 404

\* C26: the totalProjects of getAnalytics is the number of projects getProjects
\* returns for the same filters.
C26_AnalyticsCountsListedProjects ==
    AfterAnalytics
    => output.totalProjects
         = Len(SelectSeq(storage,
                         LAMBDA p : GetProjectsKeeps(p, input.filters)))

\* C27: with the joint-venture flag not sent and every counted project naming
\* a non-empty contractor, the costs credited to the contractors add up to
\* totalCost.
C27_SplitConservesCost ==
    (/\ AfterAnalytics
     /\ input.filters.useFullCostForJointVentures = Absent
     /\ LET ps == Filtered(storage, input.filters)
        IN \A i \in 1..Len(ps) : NamedContractors(ps[i]) # {})
    => SumOfGroupCosts(output.projectsByContractor,
                       DOMAIN output.projectsByContractor) = output.totalCost

\* C28: an analytics request carrying the joint-venture flag with the value
\* false is answered with the projectsByContractor of the same request
\* without the flag.
C28_FalseFlagSplitsCost ==
    (AfterAnalytics /\ input.filters.useFullCostForJointVentures = "false")
    => output.projectsByContractor
         = Analytics(storage,
                     [input.filters EXCEPT
                        !.useFullCostForJointVentures = Absent]
                    ).projectsByContractor

\* the ids held by the in-memory project map
CatalogIdsOf(map) == {map[i].id : i \in 1..Len(map)}

\* C21: the in-memory project map and the projects table hold the same ids
\* with the same latitude and longitude.
C21_CatalogAndTableAgree ==
    /\ CatalogIdsOf(storage) = DOMAIN projects
    /\ \A i \in 1..Len(storage) :
          storage[i].id \in DOMAIN projects
          => /\ projects[storage[i].id].latitude = storage[i].latitude
             /\ projects[storage[i].id].longitude = storage[i].longitude

AfterLeaderboard == resp.route = "leaderboard" /\ input.kind = "leaderboard"

\* the projects user u has a stored rating for
RatedProjects(u) == {r.projectId : r \in {x \in reactions : x.userId = u}}

\* C29: each row of the leaderboard carries the number of distinct projects
\* its user has a stored rating for, no user is listed twice, and a user
\* without a stored rating is not listed.
C29_LeaderboardCountsRatedProjects ==
    AfterLeaderboard
    => /\ \A i \in 1..Len(output.rows) :
             /\ output.rows[i].reactionCount.parts
                  = <<Frac(Cardinality(RatedProjects(output.rows[i].user)), 1)>>
             /\ RatedProjects(output.rows[i].user) # {}
       /\ \A i, j \in 1..Len(output.rows) :
             i # j => output.rows[i].user # output.rows[j].user
       /\ \A u \in UserIds :
             RatedProjects(u) # {}
             => \E i \in 1..Len(output.rows) : output.rows[i].user = u

\* C29 witness: the leaderboard after a user rated one project twice, while
\* the other user rated nothing
C29_Witness ==
    /\ AfterLeaderboard
    /\ nsubmit = 2
    /\ Cardinality(reactions) = 1
    /\ Len(output.rows) = 1
    /\ \E r \in reactions : r.rating = "ghost" /\ r.userId = "u1"

\* C23: no two distinct users hold the same non-null username.
C23_UsernamesUnique ==
    \A u, v \in UserIds :
        (u # v /\ ~users[u].username.null)
        => users[u].username # users[v].username

\* C25: a read that depends on reactions and is issued after a successful
\* rating submission of the browser is not answered from a cache entry filled
\* before that submission.
C25_NoReadFromEntryFilledBeforeWrite ==
    (cache.answer.from = "cache")
    => cache.answer.filledAt >= cache.answer.lastWrite

\* click i was made by an authenticated user
Clicked(i) == i \in 1..Len(click) /\ click[i].phase # "login"

\* click i has led to exactly one submission
SubmittedOnce(i) == i \in 1..Len(click) /\ Len(click[i].mutations) = 1

\* C24: every rating click of an authenticated user eventually results in
\* exactly one rating submission.
C24_ClickEventuallySubmits ==
    \A i \in 1..MaxClicks : Clicked(i) ~> SubmittedOnce(i)

====
